---- MODULE Spec2Model ----
(***************************************************************************)
(* ghostly-session: the session daemon (run_server), its event loop,       *)
(* client table, SIGCHLD/SIGTERM handlers and shutdown sequence; the       *)
(* registry protocol of create/list/kill; and the attach client's loop.    *)
(* Source: src/ghostly-session/ghostly-session.cpp                         *)
(***************************************************************************)
EXTENDS Integers, Sequences, FiniteSets, TLC

(* ------------------------------------------------------------------ *)
(* Bounds of the model                                                  *)
(* ------------------------------------------------------------------ *)

\* Capacity of the client table. The program's value is 16 (line 65); the
\* model runs the same code with a table of this size.
MAX_CLIENTS == 2

\* Connections the environment may open against the daemon.
NumConns == 3

\* Bytes the child may write to the PTY.
MaxOut == 2

\* Frames a client may have queued, unread, on its socket.
MaxSend == 1

\* Invocations of create, open, list and kill on the one session name.
NumInv == 3

\* Bytes in one read of the attach client's stdin.
MaxChunk == 2

\* Frames the attach client has sent beyond which the user types no more and
\* the terminal is resized no more.
MaxTx == 3

\* Longest command given to create.
MaxCmd == 3

\* Longest session name accepted. The program's value is 64 (line 69); the
\* model runs the same code with this limit.
MAX_NAME_LEN == 2

(* ------------------------------------------------------------------ *)
(* Program constants                                                    *)
(* ------------------------------------------------------------------ *)

BUF_SIZE == 8192
DETACH_KEY == 28
LINE_SIZE == 512
MaxPayload == 1048576
SIGHUP == 1
SIGKILL == 9
SIGTERM == 15
ChildPid == 100
Reaped == -1

Conns == 1 .. NumConns

(* ------------------------------------------------------------------ *)
(* Frames                                                               *)
(* ------------------------------------------------------------------ *)

\* A frame as a client puts it on the wire: type tag, declared payload
\* length, and whether header and payload arrive in full.
Frame(t, n, f) == [type |-> t, len |-> n, full |-> f]

\* First frames a connecting client may send.
FirstFrames ==
    { Frame("HELLO", 4, TRUE), Frame("HELLO", 3, TRUE),
      Frame("DATA", 4, TRUE), Frame("HELLO", 4, FALSE),
      Frame("HELLO", MaxPayload + 1, TRUE) }

\* Frames an attached client may send.
ClientFrames ==
    { Frame("DATA", 1, TRUE), Frame("DATA", 0, TRUE), Frame("WINCH", 4, TRUE),
      Frame("DETACH", 0, TRUE), Frame("DATA", MaxPayload + 1, TRUE),
      Frame("DATA", MaxPayload, TRUE), Frame("DATA", 1, FALSE),
      Frame("WINCH", 3, TRUE), Frame("HELLO", 4, TRUE) }

\* recv_msg: the frame is returned iff the header is complete, the declared
\* length is 0 or at most 1 MiB, and the payload is complete. (recv_msg_m:
\* the variant that refuses a length of 1 MiB.)
recv_msg_m(f) == f.full /\ f.len < MaxPayload
recv_msg(f) == f.full /\ f.len <= MaxPayload

\* The admission test of the handshake (hello_ok_m: the variant that looks
\* at the type alone).
hello_ok_m(f) == recv_msg(f) /\ f.type = "HELLO"
hello_ok(f) == recv_msg(f) /\ f.type = "HELLO" /\ f.len = 4

\* No frame: the client sent nothing before the read gave up.
NoFrame == Frame("NONE", 0, FALSE)

\* Frames the daemon sends.
DataFrame(bytes) == [type |-> "DATA", data |-> bytes]
ExitFrame(ec) == [type |-> "EXIT", data |-> <<ec>>]

(* ------------------------------------------------------------------ *)
(* Wait statuses                                                        *)
(* ------------------------------------------------------------------ *)

Exited(c) == [kind |-> "exited", val |-> c]
Signaled(s) == [kind |-> "signaled", val |-> s]
ExitCodes == {0, 3}
WaitStatuses ==
    {Exited(c) : c \in ExitCodes} \cup {Signaled(s) : s \in {SIGHUP, SIGTERM, SIGKILL}}
NoStatus == [kind |-> "none", val |-> 0]

WIFEXITED(w) == w.kind = "exited"
WIFSIGNALED(w) == w.kind = "signaled"
WEXITSTATUS(w) == w.val
WTERMSIG(w) == w.val

VARIABLES
    pc,              \* position of the daemon's main path in run_server
    running,         \* srv.running
    child_pid,       \* srv.child_pid
    child_exit_code, \* srv.child_exit_code
    wstatus,         \* the shutdown block's local wstatus (NoStatus: not written)
    client_fds,      \* srv.client_fds
    num_clients,     \* srv.num_clients
    winsize,         \* window size last set on the PTY master
    info,            \* the info file: whether it exists, and its clients=
    files,           \* TRUE while the socket and the PID file exist
    targets,         \* pids the daemon has signalled or waited on
    cstate,          \* per connection: idle, queued, attached, and how the
                     \* daemon closed it: refused, rejected, closed, shut
    cend,            \* per connection, the client's end: open, gone
    inbox,           \* per connection: number of frames sent by the client
                     \* and not yet read by the daemon
    hello,           \* per connection: the frame it was admitted on
    rx,              \* per connection: frames the daemon wrote to it
    backlog,         \* connections waiting in the listen queue
    nprod,           \* bytes the child has written to the PTY
    nread,           \* bytes the daemon has read from the PTY master
    childState,      \* alive, zombie, reaped
    childStatus,     \* wait status of the dead child
    pendingSig,      \* signals sent to the child and not yet acted on
    sigchld,         \* SIGCHLD pending for the daemon
    early            \* connections admitted before the child wrote anything

\* The attach client (cmd_attach).
VARIABLES
    apc,             \* position of cmd_attach: off, loop, returned
    attach_running,  \* cmd_attach's local running
    exit_code,       \* cmd_attach's local exit_code, its return value
    got_winch,       \* the flag set by client_sigwinch
    stdin,           \* what the terminal holds unread: none, data, eof
    buf,             \* the bytes the next read of stdin returns
    term,            \* the terminal's settings: cooked (as found), raw
    termios_saved,   \* the flag of that name
    sock_rx,         \* frames the daemon wrote to the socket, not yet read
    sock_peer,       \* the daemon's end of the socket: open, closed
    tx,              \* the frames the client has sent, in order
    out_n,           \* DATA frames whose payload the client wrote to stdout
    srv_n,           \* DATA frames the daemon wrote to the socket
    exit_sent,       \* the code of the EXIT frame the daemon wrote (NoExit: none)
    local_end        \* the loop ended for a reason of the client's own side

\* The registry of one session name and the commands acting on it.
VARIABLES
    kind,            \* per invocation: none, create, open, list, kill
    ipc,             \* per invocation: position in its command
    pid,             \* per invocation: the local pid read from the PID file
    dstate,          \* per invocation: the daemon it forked (its pid is the
                     \* invocation's number)
    sock_file,       \* the socket path: 0 absent, else the daemon bound to it
    pid_file,        \* the PID file: 0 absent, else the pid it holds
    info_file,       \* the info file: 0 absent, else the pid it holds
    sigterm,         \* per daemon: SIGTERM sent to it and not yet delivered
    dir,             \* the registry root /tmp/ghostly-<uid>: ok (a directory
                     \* of the caller's), symlink, foreign (another owner)
    ops              \* what the commands did under a root that is not ok

dvars == <<pc, running, child_pid, child_exit_code, wstatus, client_fds,
           num_clients, winsize, info, files, targets>>
evars == <<cstate, cend, inbox, hello, rx, backlog, nprod, nread, childState,
           childStatus, pendingSig, sigchld, early>>
avars == <<apc, attach_running, exit_code, got_winch, stdin, sock_rx, sock_peer,
           tx, out_n, srv_n, exit_sent, local_end, buf, term, termios_saved>>
rvars == <<kind, ipc, pid, dstate, sock_file, pid_file, info_file, sigterm,
           dir, ops>>
\* One command's treatment of a session name.
VARIABLES
    name,            \* the name: the bytes of the argument, or of a directory
                     \* entry less its ".sock"
    subcmd,          \* create, attach, open, kill, or list meeting the entry
    npc,             \* entry, refused, skipped, running, done
    nret,            \* what the command returned
    acted            \* the command went on to act on the name's files

\* One session's files as text, written by its daemon and read by the
\* enumerator.
VARIABLES
    cmd,             \* the command given to create, "" when none
    daemon_pid,      \* getpid() in the daemon
    pid_text,        \* the bytes of <name>.pid
    info_text,       \* the bytes of <name>.info
    si,              \* the SessionInfo the enumerator returns
    epc              \* off, start, written, listed

uvars == <<name, subcmd, npc, nret, acted,
           cmd, daemon_pid, pid_text, info_text, si, epc>>

vars == <<dvars, evars, avars, rvars, uvars>>

NoFd == 0

\* write_info_file(info_path, getpid(), clients, ...): fopen("w") creates or
\* truncates the file and clients= is written.
write_info_file(clients) == [present |-> TRUE, clients |-> clients]

(* ------------------------------------------------------------------ *)
(* Construction: run_server up to the installation of the handlers      *)
(* ------------------------------------------------------------------ *)

DaemonInit ==
    /\ pc = "loop"
    /\ running = TRUE
    /\ child_pid = ChildPid
    /\ child_exit_code = 0
    /\ wstatus = NoStatus
    /\ client_fds = [k \in 0 .. MAX_CLIENTS - 1 |-> NoFd]
    /\ num_clients = 0
    /\ winsize = 0
    /\ info = write_info_file(0)
    /\ files = TRUE
    /\ targets = {}
    /\ cstate = [c \in Conns |-> "idle"]
    /\ cend = [c \in Conns |-> "open"]
    /\ inbox = [c \in Conns |-> 0]
    /\ hello = [c \in Conns |-> NoFrame]
    /\ rx = [c \in Conns |-> <<>>]
    /\ backlog = <<>>
    /\ nprod = 0
    /\ nread = 0
    /\ childState = "alive"
    /\ childStatus = NoStatus
    /\ pendingSig = {}
    /\ sigchld = FALSE
    /\ early = {}

(* ------------------------------------------------------------------ *)
(* Client table                                                         *)
(* ------------------------------------------------------------------ *)

\* The state one pass of the loop body works on; fds is the pollfd vector of
\* the pass, as poll filled it in.
\* The state the loop body works on, with the poll results of the pass and
\* the number of writes to the PTY master made in it (pw) and the processes
\* signalled in it (sig), the client sockets recv_msg was called on by the
\* client-input loop (reads) and the indices that loop examined (idxs), and
\* whether a write to a client socket has blocked (hung).
Work(fds) ==
    [tbl |-> client_fds, n |-> num_clients, cs |-> cstate, ce |-> cend, rx |-> rx,
     info |-> info, inbox |-> inbox, winsize |-> winsize, backlog |-> backlog,
     nread |-> nread, running |-> running, hello |-> hello, early |-> early,
     fds |-> fds, pw |-> 0, sig |-> {}, reads |-> {}, idxs |-> {},
     hung |-> FALSE]

NoFds == [n |-> 0, rev |-> <<>>, lrev |-> FALSE, prev |-> {}]

SetWork(w) ==
    /\ client_fds' = w.tbl
    /\ num_clients' = w.n
    /\ cstate' = w.cs
    /\ cend' = w.ce
    /\ rx' = w.rx
    /\ info' = w.info
    /\ inbox' = w.inbox
    /\ winsize' = w.winsize
    /\ backlog' = w.backlog
    /\ nread' = w.nread
    /\ running' = w.running
    /\ hello' = w.hello
    /\ early' = w.early

\* close(fd) of a connection the daemon drops: the connection is over. What
\* the client had sent and the daemon had not read is discarded with the
\* socket, and the stream the daemon wrote to it has ended (the model keeps
\* the streams of open connections and of those closed by the shutdown).
close(w, c, how) ==
    [w EXCEPT !.cs[c] = how, !.ce[c] = "gone", !.inbox[c] = 0, !.rx[c] = <<>>,
              !.early = @ \ {c}]

\* server_remove_client(srv, idx): close the descriptor, move the last entry
\* into its slot, decrement the count, rewrite the info file. (The vacated
\* last slot is dead storage; the model blanks it.) server_remove_client_m
\* is the variant that leaves the info file as it was.
server_remove_client_m(w, idx) ==
    [close(w, w.tbl[idx], "closed")
        EXCEPT !.tbl = [[w.tbl EXCEPT ![idx] = w.tbl[w.n - 1]] EXCEPT ![w.n - 1] = NoFd],
               !.n = w.n - 1]
server_remove_client(w, idx) ==
    [close(w, w.tbl[idx], "closed")
        EXCEPT !.tbl = [[w.tbl EXCEPT ![idx] = w.tbl[w.n - 1]] EXCEPT ![w.n - 1] = NoFd],
               !.n = w.n - 1,
               !.info = write_info_file(w.n - 1)]

\* send_msg(fd, ...) on a client socket: the write fails (EPIPE, SIGPIPE being
\* ignored) once the client's end is gone, and succeeds otherwise.
send_msg(w, c) == w.ce[c] = "open"

\* write(fd, ...) in write_all on a client socket whose peer has stopped
\* reading and whose buffers are full: the socket is a blocking one (only
\* the PTY master is made non-blocking) and has no send timeout, so the
\* call does not return.
blocks(w, c) == w.ce[c] = "stalled"

\* server_broadcast(srv, type, data, len): back to front, removing every
\* client the send to which fails.
RECURSIVE bcast(_, _, _)
bcast(w, k, fr) ==
    IF k < 0 \/ w.hung THEN w
    ELSE LET c == w.tbl[k] IN
         IF blocks(w, c) THEN [w EXCEPT !.hung = TRUE]
         ELSE IF send_msg(w, c)
         THEN bcast([w EXCEPT !.rx[c] = Append(@, fr)], k - 1, fr)
         ELSE bcast(server_remove_client(w, k), k - 1, fr)
server_broadcast(w, fr) == bcast(w, w.n - 1, fr)

Attached == {client_fds[k] : k \in 0 .. num_clients - 1}

(* ------------------------------------------------------------------ *)
(* Environment: clients, the child, signals                             *)
(* ------------------------------------------------------------------ *)

\* The place of each step of run_server in the order of its code.
Rank(p) ==
    CASE p = "loop" -> 0
      [] p = "sd_check" -> 1
      [] p = "sd_hup" -> 2
      [] p = "sd_wait1" -> 3
      [] p = "sd_term" -> 4
      [] p = "sd_wait2" -> 5
      [] p = "sd_kill" -> 6
      [] p = "sd_wait3" -> 7
      [] p = "sd_exit" -> 8
      [] p = "sd_close" -> 9
      [] p = "done" -> 10

\* The daemon accepts and reads only inside its loop; what clients and the
\* child send after it has left the loop is never looked at.
InLoop == pc = "loop"

\* A client connects. (What it sends first is seen by nobody before the
\* handshake reads it, and is chosen there.)
Connect(c) ==
    /\ InLoop
    /\ cstate[c] = "idle"
    /\ \A d \in Conns : d < c => cstate[d] # "idle"
    /\ cstate' = [cstate EXCEPT ![c] = "queued"]
    /\ backlog' = Append(backlog, c)
    /\ UNCHANGED <<dvars, cend, inbox, hello, rx, nprod, nread, childState,
                   childStatus, pendingSig, sigchld, early>>
    /\ UNCHANGED <<avars, rvars, uvars>>

\* An attached client sends a frame. (Which frame is seen by nobody before
\* the daemon reads it, and is chosen there.)
ClientSend(c) ==
    /\ InLoop
    /\ cstate[c] = "attached"
    /\ cend[c] = "open"
    /\ inbox[c] < MaxSend
    /\ inbox' = [inbox EXCEPT ![c] = @ + 1]
    /\ UNCHANGED <<dvars, cstate, cend, hello, rx, backlog, nprod, nread,
                   childState, childStatus, pendingSig, sigchld, early>>
    /\ UNCHANGED <<avars, rvars, uvars>>

\* A client closes its end (exits, detaches, is killed).
ClientClose(c) ==
    /\ pc \in {"loop", "sd_exit"}
    /\ cstate[c] \in {"queued", "attached"}
    /\ cend[c] = "open"
    /\ cend' = [cend EXCEPT ![c] = "gone"]
    /\ UNCHANGED <<dvars, cstate, inbox, hello, rx, backlog, nprod, nread,
                   childState, childStatus, pendingSig, sigchld, early>>
    /\ UNCHANGED <<avars, rvars, uvars>>

\* An attached client stops reading its socket (it is stopped, or blocked
\* writing to its own terminal) with the socket's buffers full of what the
\* daemon wrote before. It stays so: a client that resumes or goes away
\* behaves as an open one.
ClientStall(c) ==
    /\ pc \notin {"hung", "sd_close", "done"}
    /\ cstate[c] = "attached"
    /\ cend[c] = "open"
    /\ cend' = [cend EXCEPT ![c] = "stalled"]
    /\ UNCHANGED <<dvars, cstate, inbox, hello, rx, backlog, nprod, nread,
                   childState, childStatus, pendingSig, sigchld, early>>
    /\ UNCHANGED <<avars, rvars, uvars>>

\* The child writes one byte to its terminal.
ChildWrite ==
    /\ InLoop
    /\ childState = "alive"
    /\ nprod < MaxOut
    /\ nprod' = nprod + 1
    /\ UNCHANGED <<dvars, cstate, cend, inbox, hello, rx, backlog, nread,
                   childState, childStatus, pendingSig, sigchld, early>>
    /\ UNCHANGED <<avars, rvars, uvars>>

ChildDies(w) ==
    /\ childState = "alive"
    /\ childState' = "zombie"
    /\ childStatus' = w
    /\ pendingSig' = {}
    /\ sigchld' = TRUE

\* The child exits on its own.
ChildExit ==
    /\ \E c \in ExitCodes : ChildDies(Exited(c))
    /\ UNCHANGED <<dvars, cstate, cend, inbox, hello, rx, backlog, nprod, nread,
                   early>>
    /\ UNCHANGED <<avars, rvars, uvars>>

\* The child is terminated by a signal sent to it.
ChildKilled ==
    /\ \E s \in pendingSig : ChildDies(Signaled(s))
    /\ UNCHANGED <<dvars, cstate, cend, inbox, hello, rx, backlog, nprod, nread,
                   early>>
    /\ UNCHANGED <<avars, rvars, uvars>>

\* server_sigterm: SIGTERM is delivered to the daemon.
server_sigterm ==
    /\ pc # "done"
    /\ running
    /\ running' = FALSE
    /\ UNCHANGED <<pc, child_pid, child_exit_code, wstatus, client_fds,
                   num_clients, winsize, info, files, targets, evars>>
    /\ UNCHANGED <<avars, rvars, uvars>>

\* waitpid(p, &wstatus, WNOHANG) as seen by the caller: the child's pid and
\* its status when p names the unreaped dead child (or is -1, any child),
\* 0 while the child runs, -1 (ECHILD) once it has been reaped.
WaitResult(p) ==
    IF childState = "zombie" THEN ChildPid
    ELSE IF childState = "alive" THEN 0 ELSE -1

\* The exit code the handler decodes from a wait status.
decode(w, old) ==
    IF WIFEXITED(w) THEN WEXITSTATUS(w)
    ELSE IF WIFSIGNALED(w) THEN 128 + WTERMSIG(w) ELSE old

\* server_sigchld: reap without blocking, record the exit code, clear running.
server_sigchld ==
    /\ pc # "done"
    /\ sigchld
    /\ sigchld' = FALSE
    /\ IF child_pid > 0
       THEN /\ IF WaitResult(child_pid) > 0
               THEN /\ child_exit_code' = decode(childStatus, child_exit_code)
                    /\ child_pid' = Reaped
                    /\ childState' = "reaped"
               ELSE UNCHANGED <<child_exit_code, child_pid, childState>>
            /\ running' = FALSE
            /\ targets' = targets \cup {child_pid}
       ELSE UNCHANGED <<child_exit_code, child_pid, childState, running, targets>>
    /\ UNCHANGED <<pc, wstatus, client_fds, num_clients, winsize, info,
                   files, cstate, cend, inbox, hello, rx, backlog, nprod, nread,
                   childStatus, pendingSig, early>>
    /\ UNCHANGED <<avars, rvars, uvars>>

(* ------------------------------------------------------------------ *)
(* The event loop of run_server                                         *)
(* ------------------------------------------------------------------ *)

\* revents poll may report for a client socket: nothing or readable while
\* the client's end is open; readable with hangup after an orderly close,
\* hangup or error alone after a reset; and, when the client went away only
\* after poll had returned, what poll saw before.
RevsOf(c) ==
    LET open == IF inbox[c] > 0 THEN {"IN"} ELSE {}
    IN  IF cend[c] = "gone" THEN {{"IN", "HUP"}, {"HUP"}, open} ELSE {open}

\* revents poll may report for the PTY master: readable while output is
\* unread, hangup once the child is gone (with or without readable), or
\* what poll saw before the child went.
PtyRevs ==
    LET in == IF nread < nprod THEN {"IN"} ELSE {}
    IN  IF childState = "alive" THEN {in}
        ELSE {in, in \cup {"HUP"}, {"IN", "HUP"}}

\* The pollfd vectors one poll may return: [listen_fd, pty_master, client0,
\* ...] built from the table as it is at the top of the loop.
Polled ==
    { [n |-> num_clients, rev |-> rv, lrev |-> backlog # <<>>, prev |-> pr] :
        rv \in { r \in [0 .. num_clients - 1 -> SUBSET {"IN", "HUP"}] :
                   \A k \in 0 .. num_clients - 1 : r[k] \in RevsOf(client_fds[k]) },
        pr \in PtyRevs }

\* while (srv.running) is left.
LoopExit ==
    /\ pc = "loop"
    /\ ~running
    /\ pc' = "sd_check"
    /\ UNCHANGED <<running, child_pid, child_exit_code, wstatus, client_fds,
                   num_clients, winsize, info, files, targets, evars>>
    /\ UNCHANGED <<avars, rvars, uvars>>

\* poll fails with an error other than EINTR: break.
PollError ==
    /\ pc = "loop"
    /\ running
    /\ pc' = "sd_check"
    /\ UNCHANGED <<running, child_pid, child_exit_code, wstatus, client_fds,
                   num_clients, winsize, info, files, targets, evars>>
    /\ UNCHANGED <<avars, rvars, uvars>>

\* The sizes the clients of the model announce: HELLO 80x24, WINCH 120x40.
HelloSize == 1
WinchSize == 2

\* The capacity test of the accept path (at_capacity_m: the variant that is
\* off by one).
at_capacity_m(n) == n > MAX_CLIENTS
at_capacity(n) == n >= MAX_CLIENTS

\* (accept_m: the variant that sets the window size from a HELLO of any
\* length before it turns the connection away.)
\* New connection: accept; at capacity close; else read one frame under the
\* handshake timeout and admit on a valid HELLO, close otherwise.
\* f: what the connection delivers to the handshake's read (NoFrame: nothing
\* before the 2 s timeout or end of stream).
accept_m(w, f) ==
    IF ~(w.fds.lrev /\ w.backlog # <<>>) THEN w
    ELSE LET c == Head(w.backlog)
             w1 == [w EXCEPT !.backlog = Tail(@)]
         IN  IF at_capacity(w.n) THEN close(w1, c, "refused")
             ELSE IF hello_ok(f)
             THEN [w1 EXCEPT !.winsize = HelloSize,
                             !.tbl[w.n] = c,
                             !.n = w.n + 1,
                             !.info = write_info_file(w.n + 1),
                             !.cs[c] = "attached",
                             !.hello[c] = f,
                             !.early = IF nprod = 0 THEN @ \cup {c} ELSE @]
             ELSE IF recv_msg(f) /\ f.type = "HELLO"
             THEN [close(w1, c, "rejected") EXCEPT !.winsize = HelloSize]
             ELSE close(w1, c, "rejected")

accept(w, f) ==
    IF ~(w.fds.lrev /\ w.backlog # <<>>) THEN w
    ELSE LET c == Head(w.backlog)
             w1 == [w EXCEPT !.backlog = Tail(@)]
         IN  IF at_capacity(w.n) THEN close(w1, c, "refused")
             ELSE IF hello_ok(f)
             THEN [w1 EXCEPT !.winsize = HelloSize,
                             !.tbl[w.n] = c,
                             !.n = w.n + 1,
                             !.info = write_info_file(w.n + 1),
                             !.cs[c] = "attached",
                             !.hello[c] = f,
                             !.early = IF nprod = 0 THEN @ \cup {c} ELSE @]
             ELSE close(w1, c, "rejected")

Min(a, b) == IF a < b THEN a ELSE b
Bytes(lo, hi) == [k \in 1 .. hi - lo + 1 |-> lo + k - 1]

\* PTY output: one read of up to BUF_SIZE bytes, broadcast as one DATA frame;
\* a read of 0 bytes or a hard error, or POLLHUP|POLLERR, clears running.
pty(w) ==
    LET n == Min(nprod - w.nread, BUF_SIZE)
        rd == "IN" \in w.fds.prev
        w1 == IF rd /\ n > 0
              THEN [server_broadcast(w, DataFrame(Bytes(w.nread + 1, w.nread + n)))
                       EXCEPT !.nread = w.nread + n]
              ELSE w
    IN  [w1 EXCEPT !.running = IF (rd /\ n = 0) \/ "HUP" \in w.fds.prev
                               THEN FALSE ELSE @]

\* Dispatch of one received frame from the client at index k. (dispatch_m:
\* the variant that applies a WINCH of any length.)
dispatch_m(w, k, f) ==
    CASE f.type = "DATA" -> IF f.len > 0 THEN [w EXCEPT !.pw = @ + 1] ELSE w
      [] f.type = "WINCH" -> [w EXCEPT !.winsize = WinchSize]
      [] f.type = "DETACH" -> server_remove_client(w, k)
      [] OTHER -> w

dispatch(w, k, f) ==
    CASE f.type = "DATA" -> IF f.len > 0 THEN [w EXCEPT !.pw = @ + 1] ELSE w
      [] f.type = "WINCH" -> IF f.len = 4 THEN [w EXCEPT !.winsize = WinchSize] ELSE w
      [] f.type = "DETACH" -> server_remove_client(w, k)
      [] OTHER -> w

\* One turn of the client-input loop, for the client at index k: rev is
\* fds[2 + k].revents; got says that the client's stream holds a frame, f.
serve(w, k, rev, got, f) ==
    LET c == w.tbl[k]
        w1 == IF got THEN [w EXCEPT !.inbox[c] = @ - 1] ELSE w
        w2 == [w1 EXCEPT !.reads = @ \cup {c}]
    IN  IF rev = {} THEN w
        ELSE IF "IN" \in rev
        THEN IF got /\ recv_msg(f) THEN dispatch(w2, k, f)
             ELSE server_remove_client(w2, k)
        ELSE server_remove_client(w, k)

\* What fds[2 + k].revents may hold past the end of the vector.
Garbage == {{}, {"IN"}, {"HUP"}}

\* The client-input loop from index k down to 0. revents are those of the
\* entry the vector holds at 2 + k: the entry polled in this cycle, or, past
\* the end of the vector, whatever the memory there holds (g). sent[c] is
\* the frame connection c has at the head of its stream, if it has one; a
\* read on a stream that has none fails (end of stream, or the 30 s timeout).
RECURSIVE input(_, _, _, _)
input(w, k, g, sent) ==
    IF k < 0 \/ w.hung THEN w
    ELSE LET rev == IF k < w.fds.n THEN w.fds.rev[k] ELSE g
             c == w.tbl[k]
             got == w.inbox[c] > 0
             f == IF got THEN sent[c] ELSE NoFrame
             w0 == [w EXCEPT !.idxs = @ \cup {k}]
         IN  input(serve(w0, k, rev, got, f), k - 1, g, sent)

\* The pass accepts a connection and runs the handshake on it.
Handshake == backlog # <<>> /\ ~at_capacity(num_clients)

\* The body of the loop after poll has returned fds: accept, PTY output,
\* client input.
pass(fds, f, g, sent) ==
    LET w == pty(accept(Work(fds), f)) IN input(w, w.n - 1, g, sent)

\* One iteration of while (srv.running): build the pollfd vector and poll,
\* then accept, PTY output, client input.
Cycle ==
    /\ pc = "loop"
    /\ running
    /\ \E fds \in Polled,
          f \in (IF Handshake THEN FirstFrames \cup {NoFrame} ELSE {NoFrame}),
          g \in (IF Handshake THEN Garbage ELSE {{}}),
          sent \in [{c \in Attached : inbox[c] > 0} -> ClientFrames] :
          LET w1 == pass(fds, f, g, sent)
          IN  /\ SetWork(w1)
              /\ targets' = targets \cup w1.sig
              /\ pc' = IF w1.hung THEN "hung" ELSE pc
    /\ UNCHANGED <<child_pid, child_exit_code, wstatus, files,
                   nprod, childState, childStatus, pendingSig, sigchld>>
    /\ UNCHANGED <<avars, rvars, uvars>>

(* ------------------------------------------------------------------ *)
(* Shutdown of run_server                                               *)
(* ------------------------------------------------------------------ *)

ShutdownFrame == <<running, client_fds, num_clients, winsize, info,
                   files, cstate, cend, inbox, hello, rx, backlog, nprod, nread,
                   sigchld, early>>

\* if (srv.child_pid > 0)
ShutdownCheck ==
    /\ pc = "sd_check"
    /\ pc' = IF child_pid > 0 THEN "sd_hup" ELSE "sd_exit"
    /\ UNCHANGED <<child_pid, child_exit_code, wstatus, targets, childState,
                   childStatus, pendingSig, ShutdownFrame>>
    /\ UNCHANGED <<avars, rvars, uvars>>

\* kill(srv.child_pid, sig), followed by the pause: the signal reaches the
\* child if it still runs.
Kill(from, sig, to) ==
    /\ pc = from
    /\ pc' = to
    /\ targets' = targets \cup {child_pid}
    /\ pendingSig' = IF childState = "alive" THEN pendingSig \cup {sig} ELSE pendingSig
    /\ UNCHANGED <<child_pid, child_exit_code, wstatus, childState, childStatus,
                   ShutdownFrame>>
    /\ UNCHANGED <<avars, rvars, uvars>>

KillHup == Kill("sd_hup", SIGHUP, "sd_wait1")
KillTerm == Kill("sd_term", SIGTERM, "sd_wait2")
KillKill == Kill("sd_kill", SIGKILL, "sd_wait3")

\* The status the capture reads: wstatus if a wait wrote it, else the
\* indeterminate value of the uninitialised local.
WstatusRead(w) == IF w = NoStatus THEN WaitStatuses ELSE {w}

\* if (srv.child_exit_code == 0 && WIFEXITED(wstatus))
\*     srv.child_exit_code = WEXITSTATUS(wstatus);
capture(code, w) ==
    IF code = 0 /\ WIFEXITED(w) THEN WEXITSTATUS(w) ELSE code

\* waitpid(srv.child_pid, &wstatus, WNOHANG) == 0 ? escalate : capture.
\* wstatus is written only when a child is reaped; when the wait does not
\* return 0 the block is left through the capture of the exit code.
Wait(from, alive) ==
    /\ pc = from
    /\ targets' = targets \cup {child_pid}
    /\ LET r == WaitResult(child_pid)
           ws == IF r > 0 THEN childStatus ELSE wstatus
       IN  /\ pc' = IF r = 0 THEN alive ELSE "sd_exit"
           /\ wstatus' = ws
           /\ childState' = IF r > 0 THEN "reaped" ELSE childState
           /\ IF r = 0 THEN child_exit_code' = child_exit_code
              ELSE \E w \in WstatusRead(ws) :
                      child_exit_code' = capture(child_exit_code, w)
    /\ UNCHANGED <<child_pid, childStatus, pendingSig, ShutdownFrame>>
    /\ UNCHANGED <<avars, rvars, uvars>>

Wait1 == Wait("sd_wait1", "sd_term")
Wait2 == Wait("sd_wait2", "sd_kill")

\* waitpid(srv.child_pid, &wstatus, 0): returns once the child is dead.
Wait3 ==
    /\ childState # "alive"
    /\ Wait("sd_wait3", "sd_wait3")

\* uint8_t ec = (uint8_t)srv.child_exit_code; server_broadcast(MSG_EXIT, &ec, 1)
\* (BroadcastExit_m: the variant that may broadcast again.)
BroadcastExit_m ==
    /\ pc = "sd_exit"
    /\ pc' = "sd_exit"
    /\ SetWork(server_broadcast(Work(NoFds), ExitFrame(child_exit_code % 256)))
    /\ UNCHANGED <<child_pid, child_exit_code, wstatus, files, targets,
                   nprod, childState, childStatus, pendingSig, sigchld>>
    /\ UNCHANGED <<avars, rvars, uvars>>
BroadcastExit ==
    /\ pc = "sd_exit"
    /\ LET w == server_broadcast(Work(NoFds), ExitFrame(child_exit_code % 256))
       IN  SetWork(w) /\ pc' = IF w.hung THEN "hung" ELSE "sd_close"
    /\ UNCHANGED <<child_pid, child_exit_code, wstatus, files, targets,
                   nprod, childState, childStatus, pendingSig, sigchld>>
    /\ UNCHANGED <<avars, rvars, uvars>>

\* Close every client socket, the listening socket and the PTY master;
\* cleanup_session_files; g_server = NULL; return. (Cleanup_m: the variant
\* that returns without cleanup_session_files.)
Cleanup_m ==
    /\ pc = "sd_close"
    /\ pc' = "done"
    /\ cstate' = [c \in Conns |-> IF c \in Attached THEN "shut" ELSE cstate[c]]
    /\ info' = [present |-> FALSE, clients |-> 0]
    /\ UNCHANGED <<running, child_pid, child_exit_code, wstatus, client_fds,
                   num_clients, winsize, files, targets, cend, inbox, hello, rx,
                   backlog, nprod, nread, childState, childStatus, pendingSig,
                   sigchld, early>>
    /\ UNCHANGED <<avars, rvars, uvars>>
Cleanup ==
    /\ pc = "sd_close"
    /\ pc' = "done"
    /\ cstate' = [c \in Conns |-> IF c \in Attached THEN "shut" ELSE cstate[c]]
    /\ files' = FALSE
    /\ info' = [present |-> FALSE, clients |-> 0]
    /\ UNCHANGED <<running, child_pid, child_exit_code, wstatus, client_fds,
                   num_clients, winsize, targets, cend, inbox, hello, rx,
                   backlog, nprod, nread, childState, childStatus, pendingSig,
                   sigchld, early>>
    /\ UNCHANGED <<avars, rvars, uvars>>

(* ------------------------------------------------------------------ *)
(* The attach client: cmd_attach                                        *)
(* ------------------------------------------------------------------ *)

NoExit == -1

\* The sequences over S of length at most n.
RECURSIVE SeqsOf(_, _)
SeqsOf(S, n) ==
    IF n = 0 THEN {<<>>}
    ELSE LET shorter == SeqsOf(S, n - 1)
         IN  shorter \cup
             {Append(q, x) : q \in {r \in shorter : Len(r) = n - 1}, x \in S}

\* A frame the client sends.
Msg(t, d) == [type |-> t, data |-> d]

\* The window size as HELLO and WINCH carry it: cols and rows, big-endian.
WinBytes == <<0, 80, 0, 24>>

\* What one read of stdin may return: 1 to MaxChunk bytes, each the detach
\* key or another key.
Chunks == SeqsOf({DETACH_KEY, 97}, MaxChunk) \ {<<>>}

\* No attach client runs.
AttachOff ==
    /\ apc = "off"
    /\ attach_running = FALSE
    /\ exit_code = 0
    /\ got_winch = FALSE
    /\ stdin = "none"
    /\ buf = <<>>
    /\ term = "cooked"
    /\ termios_saved = FALSE
    /\ sock_rx = <<>>
    /\ sock_peer = "open"
    /\ tx = <<>>
    /\ out_n = 0
    /\ srv_n = 0
    /\ exit_sent = NoExit
    /\ local_end = FALSE

\* term_raw: nothing when stdin is no terminal (or tcgetattr fails); else
\* the settings are saved and the terminal is made raw.
term_raw(tty) == [term |-> IF tty THEN "raw" ELSE "cooked", saved |-> tty]

\* term_restore: the saved settings are set again iff termios_saved, and
\* the flag is cleared.
term_restore ==
    /\ term' = IF termios_saved THEN "cooked" ELSE term
    /\ termios_saved' = FALSE

\* cmd_attach up to its loop: connected, HELLO sent, atexit handler
\* registered, term_raw called, exit_code = 0, running = true.
AttachInit ==
    /\ apc = "loop"
    /\ attach_running = TRUE
    /\ exit_code = 0
    /\ got_winch = FALSE
    /\ stdin = "none"
    /\ buf = <<>>
    /\ \E tty \in BOOLEAN :
          /\ term = term_raw(tty).term
          /\ termios_saved = term_raw(tty).saved
    /\ sock_rx = <<>>
    /\ sock_peer = "open"
    /\ tx = <<Msg("HELLO", WinBytes)>>
    /\ out_n = 0
    /\ srv_n = 0
    /\ exit_sent = NoExit
    /\ local_end = FALSE

AttachFrame == <<dvars, evars, rvars, uvars>>

\* The daemon fans a PTY read out to this client.
SrvData ==
    /\ apc = "loop"
    /\ sock_peer = "open"
    /\ exit_sent = NoExit
    /\ srv_n < MaxOut
    /\ sock_rx' = Append(sock_rx, DataFrame(<<srv_n + 1>>))
    /\ srv_n' = srv_n + 1
    /\ UNCHANGED <<apc, attach_running, exit_code, got_winch, stdin, sock_peer, tx,
                   out_n, exit_sent, local_end, buf, term, termios_saved,
                   AttachFrame>>

\* The daemon's shutdown writes the EXIT frame to this client.
SrvExit ==
    /\ apc = "loop"
    /\ sock_peer = "open"
    /\ exit_sent = NoExit
    /\ \E c \in ExitCodes :
          /\ sock_rx' = Append(sock_rx, ExitFrame(c))
          /\ exit_sent' = c
    /\ UNCHANGED <<apc, attach_running, exit_code, got_winch, stdin, sock_peer, tx,
                   out_n, srv_n, local_end, buf, term, termios_saved, AttachFrame>>

\* The daemon closes this client's socket (shutdown, or removal).
SrvClose ==
    /\ apc = "loop"
    /\ sock_peer = "open"
    /\ sock_peer' = "closed"
    /\ UNCHANGED <<apc, attach_running, exit_code, got_winch, stdin, sock_rx, tx,
                   out_n, srv_n, exit_sent, local_end, buf, term, termios_saved,
                   AttachFrame>>

\* The user types (a chunk of keys, the detach key possibly among them), or
\* the terminal reaches end of input, or standard input hangs up with
\* nothing to read (poll reports POLLHUP alone, as for a pipe the writer of
\* which has gone), or reads of it start to fail (POLLIN|POLLERR with
\* read returning -1, as EIO on a terminal lost to the process).
UserType ==
    /\ apc = "loop"
    /\ stdin = "none"
    /\ Len(tx) < MaxTx
    /\ \/ stdin' = "data" /\ buf' \in Chunks
       \/ stdin' \in {"eof", "hup", "err"} /\ buf' = <<>>
    /\ UNCHANGED <<apc, attach_running, exit_code, got_winch, sock_rx, sock_peer, tx,
                   out_n, srv_n, exit_sent, local_end, term, termios_saved,
                   AttachFrame>>

\* client_sigwinch: got_winch = 1.
client_sigwinch ==
    /\ apc = "loop"
    /\ ~got_winch
    /\ Len(tx) < MaxTx
    /\ got_winch' = TRUE
    /\ UNCHANGED <<apc, attach_running, exit_code, stdin, sock_rx, sock_peer, tx,
                   out_n, srv_n, exit_sent, local_end, buf, term, termios_saved,
                   AttachFrame>>

\* send_msg(sock_fd, ...) as the client calls it: the write fails (EPIPE)
\* once the daemon's end is closed.
sock_send == sock_peer = "open"

\* The frames sent so far once frame m has been attempted.
sent_with(m, sent) == IF sock_send THEN Append(sent, m) ELSE sent

\* The scan of the bytes read for the detach key. (has_detach_m: the
\* variant that looks at the first byte alone.)
has_detach_m(b, n) == n >= 1 /\ b[1] = DETACH_KEY
has_detach(b, n) == \E i \in 1 .. n : b[i] = DETACH_KEY

\* One iteration of while (running) whose poll returned >= 0: SIGWINCH,
\* stdin to server, server to stdout, hangup.
AttachCycle ==
    /\ apc = "loop"
    /\ attach_running
    /\ LET in0 == stdin \in {"data", "eof", "err"}
           in1 == sock_rx # <<>> \/ sock_peer = "closed"
           hup == sock_peer = "closed"
           tx1 == IF got_winch THEN sent_with(Msg("WINCH", WinBytes), tx) ELSE tx
           n == Len(buf)
           det == in0 /\ stdin = "data" /\ has_detach(buf, n)
           dat == in0 /\ stdin = "data" /\ ~has_detach(buf, n)
           eof == in0 /\ stdin = "eof"
           tx2 == IF det THEN sent_with(Msg("DETACH", <<>>), tx1)
                  ELSE IF dat THEN sent_with(Msg("DATA", buf), tx1) ELSE tx1
           run1 == ~(det \/ eof \/ (dat /\ ~sock_send))
           rd == run1 /\ in1
           eos == rd /\ sock_rx = <<>>
           got == rd /\ ~eos
           fr == Head(sock_rx)
           left == IF got THEN Tail(sock_rx) ELSE sock_rx
           isExit == got /\ fr.type = "EXIT"
           isData == got /\ fr.type = "DATA"
       IN  /\ got_winch' = FALSE
           /\ stdin' = IF stdin = "data" THEN "none" ELSE stdin
           /\ buf' = <<>>
           /\ tx' = tx2
           /\ IF det THEN term_restore ELSE UNCHANGED <<term, termios_saved>>
           /\ sock_rx' = left
           /\ out_n' = IF isData /\ Len(fr.data) > 0 THEN out_n + 1 ELSE out_n
           /\ exit_code' = IF isExit /\ Len(fr.data) >= 1 THEN fr.data[1] ELSE exit_code
           /\ attach_running' = (run1 /\ ~eos /\ ~isExit /\ ~hup)
           /\ local_end' = (local_end \/ ~run1)
    /\ UNCHANGED <<apc, sock_peer, srv_n, exit_sent, AttachFrame>>

\* poll is interrupted by SIGWINCH (EINTR): send the window size, continue.
\* (AttachEintr_m: the variant that polls again although running is false.)
AttachEintr_m ==
    /\ apc = "loop"
    /\ got_winch
    /\ got_winch' = FALSE
    /\ tx' = sent_with(Msg("WINCH", WinBytes), tx)
    /\ UNCHANGED <<apc, attach_running, exit_code, stdin, sock_rx, sock_peer,
                   out_n, srv_n, exit_sent, local_end, buf, term, termios_saved,
                   AttachFrame>>
AttachEintr ==
    /\ apc = "loop"
    /\ attach_running
    /\ got_winch
    /\ got_winch' = FALSE
    /\ tx' = sent_with(Msg("WINCH", WinBytes), tx)
    /\ UNCHANGED <<apc, attach_running, exit_code, stdin, sock_rx, sock_peer,
                   out_n, srv_n, exit_sent, local_end, buf, term, termios_saved,
                   AttachFrame>>

\* poll fails with another error: break; term_restore; close; return.
AttachPollError ==
    /\ apc = "loop"
    /\ attach_running
    /\ apc' = "returned"
    /\ local_end' = TRUE
    /\ term_restore
    /\ UNCHANGED <<attach_running, exit_code, got_winch, stdin, sock_rx, sock_peer,
                   tx, out_n, srv_n, exit_sent, buf, AttachFrame>>

\* The loop is left: term_restore; close(sock_fd); return exit_code.
AttachReturn ==
    /\ apc = "loop"
    /\ ~attach_running
    /\ apc' = "returned"
    /\ term_restore
    /\ UNCHANGED <<attach_running, exit_code, got_winch, stdin, sock_rx, sock_peer,
                   tx, out_n, srv_n, exit_sent, local_end, buf, AttachFrame>>

\* main returns what cmd_attach returned; exit runs atexit_restore.
atexit_restore ==
    /\ apc = "returned"
    /\ apc' = "exited"
    /\ term_restore
    /\ UNCHANGED <<attach_running, exit_code, got_winch, stdin, sock_rx, sock_peer,
                   tx, out_n, srv_n, exit_sent, local_end, buf, AttachFrame>>

\* A signal whose action is the default one (SIGTERM, SIGHUP, SIGINT, ...;
\* cmd_attach installs handlers for SIGPIPE and SIGWINCH only) ends the
\* process at once: no statement of the program runs, no atexit handler.
AttachSignalled ==
    /\ apc = "loop"
    /\ apc' = "killed"
    /\ UNCHANGED <<attach_running, exit_code, got_winch, stdin, sock_rx, sock_peer,
                   tx, out_n, srv_n, exit_sent, local_end, buf, term, termios_saved,
                   AttachFrame>>

NextAttach ==
    \/ SrvData
    \/ SrvExit
    \/ SrvClose
    \/ UserType
    \/ client_sigwinch
    \/ AttachCycle
    \/ AttachEintr
    \/ AttachPollError
    \/ AttachReturn
    \/ atexit_restore
    \/ AttachSignalled

(* ------------------------------------------------------------------ *)
(* The registry of one session name: create, open, list, kill           *)
(* ------------------------------------------------------------------ *)

\* Invocations of the CLI on the name; the daemon an invocation forks has
\* the invocation's number as its pid.
Invs == 1 .. NumInv

\* No command has run and the name has no files.
RegOff ==
    /\ kind = [i \in Invs |-> "none"]
    /\ ipc = [i \in Invs |-> "none"]
    /\ pid = [i \in Invs |-> 0]
    /\ dstate = [i \in Invs |-> "none"]
    /\ sock_file = 0
    /\ pid_file = 0
    /\ info_file = 0
    /\ sigterm = [i \in Invs |-> FALSE]
    /\ dir = "ok"
    /\ ops = {}

\* A file of the name that no daemon of the model wrote: one somebody else
\* put under the root, or one left by a daemon that was killed long ago. As
\* a PID it names a process that exists and belongs to another user (the
\* number has been reused, or was written by the other party).
Planted == NumInv + 1

\* The registry before any command. Under a root that is the caller's own
\* directory: empty, or the three files of a daemon killed long ago. Under
\* a root that is a symbolic link or has another owner: whatever its owner
\* put there.
RegInit ==
    /\ kind = [i \in Invs |-> "none"]
    /\ ipc = [i \in Invs |-> "none"]
    /\ pid = [i \in Invs |-> 0]
    /\ dstate = [i \in Invs |-> "none"]
    /\ sigterm = [i \in Invs |-> FALSE]
    /\ ops = {}
    /\ dir \in {"ok", "symlink", "foreign"}
    /\ sock_file \in {0, Planted}
    /\ pid_file \in {0, Planted}
    /\ info_file \in {0, Planted}
    /\ dir = "ok" => (sock_file = pid_file /\ pid_file = info_file)

RegFrame == <<dvars, evars, avars, uvars>>

\* ensure_socket_dir: mkdir, lstat; false for a symbolic link, for something
\* that is no directory, for a directory of another owner.
ensure_socket_dir == dir = "ok"

\* A command acts on a path under the root.
Op(o) == ops' = IF dir = "ok" THEN ops ELSE ops \cup {o}

\* Daemon states in which the process exists.
Alive == {"start", "unlinked", "bound", "pidw", "loop", "shutdown"}

\* process_alive(pid): kill(pid, 0) == 0.
process_alive(p) == p \in Invs /\ dstate[p] \in Alive

\* The process exists. kill(pid, 0) fails with EPERM for a process of
\* another user, so process_alive is false of it.
process_exists(p) == p = Planted \/ process_alive(p)

\* file_exists(socket_path(name)).
file_exists == sock_file # 0

\* cleanup_session_files(name): unlink the socket, the PID file, the info file.
cleanup_session_files ==
    /\ sock_file' = 0
    /\ pid_file' = 0
    /\ info_file' = 0

\* A user runs a command on the name.
Start(i) ==
    /\ kind[i] = "none"
    /\ \A j \in Invs : j < i => kind[j] # "none"
    /\ \E k \in {"create", "open", "list", "kill"} :
          /\ kind' = [kind EXCEPT ![i] = k]
          /\ ipc' = [ipc EXCEPT ![i] =
                        CASE k = "create" -> "c_dir"
                          [] k = "open" -> "o_exists"
                          [] k = "list" -> "l_readdir"
                          [] OTHER -> "k_readpid"]
    /\ UNCHANGED <<pid, dstate, sock_file, pid_file, info_file, sigterm, dir, ops,
                   RegFrame>>

\* if (file_exists(spath)), and readdir finding the name's .sock entry.
ExistsStep(i, from, yes, no) ==
    /\ ipc[i] = from
    /\ ipc' = [ipc EXCEPT ![i] = IF file_exists THEN yes ELSE no]
    /\ Op("stat")
    /\ UNCHANGED <<kind, pid, dstate, sock_file, pid_file, info_file, sigterm, dir,
                   RegFrame>>

\* pid = read_pid_file(pid_path(name)): 0 when the file is absent.
ReadPidStep(i, from, to) ==
    /\ ipc[i] = from
    /\ pid' = [pid EXCEPT ![i] = pid_file]
    /\ ipc' = [ipc EXCEPT ![i] = to]
    /\ Op("read")
    /\ UNCHANGED <<kind, dstate, sock_file, pid_file, info_file, sigterm, dir,
                   RegFrame>>

\* if (pid > 0 && process_alive(pid))
\* The local pid is read again only by cmd_kill when the process is alive;
\* on every other path it is dead from here on and the model forgets it.
AliveStep(i, from, yes, no) ==
    /\ ipc[i] = from
    /\ ipc' = [ipc EXCEPT ![i] = IF pid[i] > 0 /\ process_alive(pid[i]) THEN yes ELSE no]
    /\ pid' = [pid EXCEPT ![i] = IF ipc'[i] = "k_term" THEN @ ELSE 0]
    /\ UNCHANGED <<kind, dstate, sock_file, pid_file, info_file, sigterm, dir,
                   ops, RegFrame>>

\* The entry was judged stale: cleanup_session_files(name).
CleanupStep(i, from, to) ==
    /\ ipc[i] = from
    /\ cleanup_session_files
    /\ ipc' = [ipc EXCEPT ![i] = to]
    /\ pid' = [pid EXCEPT ![i] = 0]
    /\ Op("unlink")
    /\ UNCHANGED <<kind, dstate, sigterm, dir, RegFrame>>

\* cmd_create: if (!ensure_socket_dir()) return 1.
CreateDir(i) ==
    /\ ipc[i] = "c_dir"
    /\ ipc' = [ipc EXCEPT ![i] = IF ensure_socket_dir THEN "c_exists" ELSE "ret1"]
    /\ UNCHANGED <<kind, pid, dstate, sock_file, pid_file, info_file, sigterm, dir,
                   ops, RegFrame>>

\* cmd_create: the check for an existing session.
CreateExists(i) == ExistsStep(i, "c_exists", "c_readpid", "c_fork")
CreateReadPid(i) == ReadPidStep(i, "c_readpid", "c_alive")
CreateAlive(i) == AliveStep(i, "c_alive", "ret1", "c_cleanup")
CreateCleanup(i) == CleanupStep(i, "c_cleanup", "c_fork")

\* cmd_create: the double fork; the grandchild runs run_server.
CreateFork(i) ==
    /\ ipc[i] = "c_fork"
    /\ dstate' = [dstate EXCEPT ![i] = "start"]
    /\ ipc' = [ipc EXCEPT ![i] = "c_wait"]
    /\ UNCHANGED <<kind, pid, sock_file, pid_file, info_file, sigterm, dir, ops,
                   RegFrame>>

\* cmd_create's parent: the socket has appeared, or 20 tries have passed;
\* return 0 (cmd_open goes on to attach).
CreateReturn(i) ==
    /\ ipc[i] = "c_wait"
    /\ ipc' = [ipc EXCEPT ![i] = IF kind[i] = "open" THEN "o_attach" ELSE "ret0"]
    /\ UNCHANGED <<kind, pid, dstate, sock_file, pid_file, info_file, sigterm, dir,
                   ops, RegFrame>>

\* cmd_open: attach if the session lives, else clean up and create.
OpenExists(i) == ExistsStep(i, "o_exists", "o_readpid", "c_dir")
OpenReadPid(i) == ReadPidStep(i, "o_readpid", "o_alive")
OpenAlive(i) == AliveStep(i, "o_alive", "o_attach", "o_cleanup")
OpenCleanup(i) == CleanupStep(i, "o_cleanup", "c_dir")

\* cmd_open's cmd_attach: connect_to_session succeeds when the path names
\* the socket of a daemon that exists.
OpenAttach(i) ==
    /\ ipc[i] = "o_attach"
    /\ ipc' = [ipc EXCEPT ![i] = IF sock_file # 0 /\ process_alive(sock_file)
                                 THEN "attached" ELSE "ret1"]
    /\ Op("connect")
    /\ UNCHANGED <<kind, pid, dstate, sock_file, pid_file, info_file, sigterm, dir,
                   RegFrame>>

\* enumerate_sessions, for the name's entry.
ListReaddir(i) == ExistsStep(i, "l_readdir", "l_readpid", "ret0")
ListReadPid(i) == ReadPidStep(i, "l_readpid", "l_alive")
ListAlive(i) == AliveStep(i, "l_alive", "ret0", "l_cleanup")
ListCleanup(i) == CleanupStep(i, "l_cleanup", "ret0")

\* cmd_kill.
KillReadPid(i) == ReadPidStep(i, "k_readpid", "k_alive")
KillAlive(i) == AliveStep(i, "k_alive", "k_term", "k_stale")
KillStale(i) == CleanupStep(i, "k_stale", "ret1")

\* kill(pid, SIGTERM)
KillSigterm(i) ==
    /\ ipc[i] = "k_term"
    /\ sigterm' = IF process_alive(pid[i]) THEN [sigterm EXCEPT ![pid[i]] = TRUE]
                  ELSE sigterm
    /\ ipc' = [ipc EXCEPT ![i] = "k_wait"]
    /\ UNCHANGED <<kind, pid, dstate, sock_file, pid_file, info_file, dir, ops,
                   RegFrame>>

\* A variant that returns without the cleanup.
KillWaitDead_m(i) ==
    /\ ~process_alive(pid[i])
    /\ ipc[i] = "k_wait"
    /\ ipc' = [ipc EXCEPT ![i] = "ret0"]
    /\ UNCHANGED <<kind, pid, dstate, sock_file, pid_file, info_file, sigterm, dir,
                   ops, RegFrame>>

\* The wait loop sees the process gone: cleanup_session_files; return 0.
KillWaitDead(i) ==
    /\ ~process_alive(pid[i])
    /\ CleanupStep(i, "k_wait", "ret0")

\* Ten tries have passed with the process alive: kill(pid, SIGKILL).
KillSigkill(i) ==
    /\ ipc[i] = "k_wait"
    /\ process_alive(pid[i])
    /\ dstate' = [dstate EXCEPT ![pid[i]] = "killed"]
    /\ ipc' = [ipc EXCEPT ![i] = "k_clean"]
    /\ UNCHANGED <<kind, pid, sock_file, pid_file, info_file, sigterm, dir, ops,
                   RegFrame>>

KillCleanup(i) == CleanupStep(i, "k_clean", "ret0")

\* run_server, create_listen_socket: unlink(path).
ServerUnlink(i) ==
    /\ dstate[i] = "start"
    /\ dstate' = [dstate EXCEPT ![i] = "unlinked"]
    /\ sock_file' = 0
    /\ UNCHANGED <<kind, ipc, pid, pid_file, info_file, sigterm, dir, ops,
                   RegFrame>>

\* create_listen_socket: bind (EADDRINUSE when the path exists), listen.
\* On failure run_server kills the child and returns 1.
ServerBind(i) ==
    /\ dstate[i] = "unlinked"
    /\ dstate' = [dstate EXCEPT ![i] = IF sock_file = 0 THEN "bound" ELSE "failed"]
    /\ sock_file' = IF sock_file = 0 THEN i ELSE sock_file
    /\ UNCHANGED <<kind, ipc, pid, pid_file, info_file, sigterm, dir, ops,
                   RegFrame>>

\* write_pid_file(pid_path(name), getpid())
ServerWritePid(i) ==
    /\ dstate[i] = "bound"
    /\ dstate' = [dstate EXCEPT ![i] = "pidw"]
    /\ pid_file' = i
    /\ UNCHANGED <<kind, ipc, pid, sock_file, info_file, sigterm, dir, ops,
                   RegFrame>>

\* write_info_file(...); the handlers are installed; the loop is entered.
ServerWriteInfo(i) ==
    /\ dstate[i] = "pidw"
    /\ dstate' = [dstate EXCEPT ![i] = "loop"]
    /\ info_file' = i
    /\ UNCHANGED <<kind, ipc, pid, sock_file, pid_file, sigterm, dir, ops,
                   RegFrame>>

\* A client is admitted or removed: the info file is written again.
ServerRewriteInfo(i) ==
    /\ dstate[i] = "loop"
    /\ info_file' = i
    /\ UNCHANGED <<kind, ipc, pid, dstate, sock_file, pid_file, sigterm, dir, ops,
                   RegFrame>>

\* SIGTERM is delivered: server_sigterm once the handler is installed, the
\* default action (termination) before.
ServerSigterm(i) ==
    /\ sigterm[i]
    /\ dstate[i] \in Alive
    /\ sigterm' = [sigterm EXCEPT ![i] = FALSE]
    /\ dstate' = [dstate EXCEPT ![i] =
                     IF @ \in {"loop", "shutdown"} THEN "shutdown" ELSE "killed"]
    /\ UNCHANGED <<kind, ipc, pid, sock_file, pid_file, info_file, dir, ops,
                   RegFrame>>

\* The child exits: the loop is left.
ServerChildExit(i) ==
    /\ dstate[i] = "loop"
    /\ dstate' = [dstate EXCEPT ![i] = "shutdown"]
    /\ UNCHANGED <<kind, ipc, pid, sock_file, pid_file, info_file, sigterm, dir, ops,
                   RegFrame>>

\* The end of run_server: cleanup_session_files(name); return.
ServerCleanup(i) ==
    /\ dstate[i] = "shutdown"
    /\ dstate' = [dstate EXCEPT ![i] = "exited"]
    /\ cleanup_session_files
    /\ UNCHANGED <<kind, ipc, pid, sigterm, dir, ops,
                   RegFrame>>

NextReg ==
    \/ \E i \in Invs : Start(i)
    \/ \E i \in Invs : CreateDir(i)
    \/ \E i \in Invs : CreateExists(i)
    \/ \E i \in Invs : CreateReadPid(i)
    \/ \E i \in Invs : CreateAlive(i)
    \/ \E i \in Invs : CreateCleanup(i)
    \/ \E i \in Invs : CreateFork(i)
    \/ \E i \in Invs : CreateReturn(i)
    \/ \E i \in Invs : OpenExists(i)
    \/ \E i \in Invs : OpenReadPid(i)
    \/ \E i \in Invs : OpenAlive(i)
    \/ \E i \in Invs : OpenCleanup(i)
    \/ \E i \in Invs : OpenAttach(i)
    \/ \E i \in Invs : ListReaddir(i)
    \/ \E i \in Invs : ListReadPid(i)
    \/ \E i \in Invs : ListAlive(i)
    \/ \E i \in Invs : ListCleanup(i)
    \/ \E i \in Invs : KillReadPid(i)
    \/ \E i \in Invs : KillAlive(i)
    \/ \E i \in Invs : KillStale(i)
    \/ \E i \in Invs : KillSigterm(i)
    \/ \E i \in Invs : KillWaitDead(i)
    \/ \E i \in Invs : KillSigkill(i)
    \/ \E i \in Invs : KillCleanup(i)
    \/ \E i \in Invs : ServerUnlink(i)
    \/ \E i \in Invs : ServerBind(i)
    \/ \E i \in Invs : ServerWritePid(i)
    \/ \E i \in Invs : ServerWriteInfo(i)
    \/ \E i \in Invs : ServerRewriteInfo(i)
    \/ \E i \in Invs : ServerSigterm(i)
    \/ \E i \in Invs : ServerChildExit(i)
    \/ \E i \in Invs : ServerCleanup(i)

(* ------------------------------------------------------------------ *)
(* Session names: valid_session_name and the commands' use of it        *)
(* ------------------------------------------------------------------ *)

\* Bytes are their codes. The bytes a name is drawn from: the ends of the
\* three ranges, the three punctuation marks, and their neighbours.
NameChars ==
    {45, 46, 47, 48, 57, 58, 65, 90, 91, 95, 97, 122, 123}

\* Names up to one byte longer than the limit.
Names == SeqsOf(NameChars, MAX_NAME_LEN + 1)

\* The body of the loop over the bytes: true when the byte is passed over.
name_char(c) ==
    \/ c >= 97 /\ c <= 122
    \/ c >= 65 /\ c <= 90
    \/ c >= 48 /\ c <= 57
    \/ c = 45 \/ c = 95 \/ c = 46

RECURSIVE name_loop(_, _)
name_loop(nm, i) ==
    IF i > Len(nm) THEN TRUE
    ELSE IF name_char(nm[i]) THEN name_loop(nm, i + 1)
    ELSE FALSE

\* A variant that lets ".." through.
valid_session_name_m(nm) ==
    IF Len(nm) = 0 \/ Len(nm) > MAX_NAME_LEN THEN FALSE
    ELSE IF nm = <<46>> THEN FALSE
    ELSE name_loop(nm, 1)

valid_session_name(nm) ==
    IF Len(nm) = 0 \/ Len(nm) > MAX_NAME_LEN THEN FALSE
    ELSE IF nm = <<46>> \/ nm = <<46, 46>> THEN FALSE
    ELSE name_loop(nm, 1)

NoRet == -1

NameOff ==
    /\ name = <<>>
    /\ subcmd = "none"
    /\ npc = "off"
    /\ nret = NoRet
    /\ acted = FALSE

\* A command is given a name, or the enumerator meets an entry <name>.sock.
NameInit ==
    /\ name \in Names
    /\ subcmd \in {"create", "attach", "open", "kill", "list"}
    /\ npc = "entry"
    /\ nret = NoRet
    /\ acted = FALSE

NameFrame == <<dvars, evars, avars, rvars,
               cmd, daemon_pid, pid_text, info_text, si, epc>>

\* cmd_create, cmd_attach, cmd_open, cmd_kill: the first statement,
\* if (!valid_session_name(name)) { ...; return 1; }
CmdValidate ==
    /\ npc = "entry"
    /\ subcmd # "list"
    /\ IF valid_session_name(name)
       THEN npc' = "running" /\ nret' = nret
       ELSE npc' = "refused" /\ nret' = 1
    /\ UNCHANGED <<name, subcmd, acted, NameFrame>>

\* enumerate_sessions: if (!valid_session_name(name)) continue;
EnumValidate ==
    /\ npc = "entry"
    /\ subcmd = "list"
    /\ npc' = IF valid_session_name(name) THEN "running" ELSE "skipped"
    /\ UNCHANGED <<name, subcmd, nret, acted, NameFrame>>

\* The rest of the command: it stats, reads, connects to or unlinks the
\* name's files.
CmdBody ==
    /\ npc = "running"
    /\ npc' = "done"
    /\ acted' = TRUE
    /\ UNCHANGED <<name, subcmd, nret, NameFrame>>

NextName ==
    \/ CmdValidate
    \/ EnumValidate
    \/ CmdBody

(* ------------------------------------------------------------------ *)
(* The PID and info files as text: written by run_server, read by       *)
(* enumerate_sessions                                                   *)
(* ------------------------------------------------------------------ *)

\* Bytes are their codes.
NL == 10
CR == 13
S_pid == <<112, 105, 100, 61>>
S_clients == <<99, 108, 105, 101, 110, 116, 115, 61>>
S_created == <<99, 114, 101, 97, 116, 101, 100, 61>>
S_cmd == <<99, 109, 100, 61>>
S_bash == <<98, 97, 115, 104>>

\* The bytes a command is drawn from: a letter, a line feed, a carriage
\* return.
CmdChars == {97, NL, CR}
Cmds == SeqsOf(CmdChars, MaxCmd)

\* time(NULL) when the daemon started.
Created == 7

\* printf's %d of a number that is not negative.
RECURSIVE itoa(_)
itoa(n) == IF n < 10 THEN <<48 + n>> ELSE Append(itoa(n \div 10), 48 + (n % 10))

\* atoi, and fscanf's %d, of bytes that start with no blank and no sign: the
\* number the leading digits spell, 0 when there is none.
RECURSIVE digits(_, _, _)
digits(b, i, acc) ==
    IF i > Len(b) \/ b[i] < 48 \/ b[i] > 57 THEN acc
    ELSE digits(b, i + 1, 10 * acc + (b[i] - 48))
atoi(b) == digits(b, 1, 0)

\* write_pid_file: fprintf(f, "%d\n", pid).
write_pid_text(p) == Append(itoa(p), NL)

\* read_pid_file: fscanf(f, "%d", &pid), 0 when the file is not there or
\* spells no number.
read_pid_text(t) == atoi(t)

\* write_info_file: fprintf(f, "pid=%d\nclients=%d\ncreated=%ld\ncmd=%s\n").
write_info_text(p, clients, created, c) ==
    S_pid \o itoa(p) \o <<NL>> \o S_clients \o itoa(clients) \o <<NL>> \o
    S_created \o itoa(created) \o <<NL>> \o S_cmd \o c \o <<NL>>

\* fgets(line, size, f): the bytes up to and with the first line feed, at
\* most size - 1 of them; the length of that line.
RECURSIVE line_len(_, _, _)
line_len(t, i, size) ==
    IF i > Len(t) \/ i > size - 1 THEN i - 1
    ELSE IF t[i] = NL THEN i
    ELSE line_len(t, i + 1, size)

\* strncmp(line, key, n) == 0 with n the length of key.
starts_with(line, key) ==
    Len(line) >= Len(key) /\ SubSeq(line, 1, Len(key)) = key

\* The trimming loop: drop line feeds and carriage returns from the end.
RECURSIVE trim(_)
trim(b) ==
    IF b # <<>> /\ (b[Len(b)] = NL \/ b[Len(b)] = CR)
    THEN trim(SubSeq(b, 1, Len(b) - 1))
    ELSE b

\* The body of while (fgets(...)) for one line.
parse_line(r, line) ==
    IF starts_with(line, S_clients)
    THEN [r EXCEPT !.clients = atoi(SubSeq(line, 9, Len(line)))]
    ELSE IF starts_with(line, S_created)
    THEN [r EXCEPT !.created = atoi(SubSeq(line, 9, Len(line)))]
    ELSE IF starts_with(line, S_cmd)
    THEN [r EXCEPT !.command = trim(SubSeq(line, 5, Len(line)))]
    ELSE r

\* The loop over the lines of the info file.
RECURSIVE parse_info(_, _)
parse_info(r, t) ==
    IF t = <<>> THEN r
    ELSE LET n == line_len(t, 1, LINE_SIZE)
         IN  parse_info(parse_line(r, SubSeq(t, 1, n)), SubSeq(t, n + 1, Len(t)))

NoSi == [pid |-> 0, clients |-> 0, created |-> 0, command |-> <<>>]

InfoOff ==
    /\ cmd = <<>>
    /\ daemon_pid = 0
    /\ pid_text = <<>>
    /\ info_text = <<>>
    /\ si = NoSi
    /\ epc = "off"

\* create <name> [-- cmd...]: the daemon has been forked and is about to
\* write its files.
InfoInit ==
    /\ cmd \in Cmds
    /\ daemon_pid \in Invs
    /\ pid_text = <<>>
    /\ info_text = <<>>
    /\ si = NoSi
    /\ epc = "start"

InfoFrame == <<dvars, evars, avars, rvars, name, subcmd, npc, nret, acted>>

\* run_server: srv.command = cmd.empty() ? "bash" : cmd; write_pid_file;
\* write_info_file with 0 clients.
InfoWrite ==
    /\ epc = "start"
    /\ pid_text' = write_pid_text(daemon_pid)
    /\ info_text' = write_info_text(daemon_pid, 0, Created,
                                    IF cmd = <<>> THEN S_bash ELSE cmd)
    /\ epc' = "written"
    /\ UNCHANGED <<cmd, daemon_pid, si, InfoFrame>>

\* enumerate_sessions on the entry of a live daemon: the PID from the PID
\* file, the defaults, then the info file line by line; push_back(si).
InfoEnumerate ==
    /\ epc = "written"
    /\ si' = parse_info([pid |-> read_pid_text(pid_text), clients |-> 0,
                         created |-> 0, command |-> S_bash], info_text)
    /\ epc' = "listed"
    /\ UNCHANGED <<cmd, daemon_pid, pid_text, info_text, InfoFrame>>

NextInfo ==
    \/ InfoWrite
    \/ InfoEnumerate

(* ------------------------------------------------------------------ *)
(* The daemon with its environment                                      *)
(* ------------------------------------------------------------------ *)

Init == DaemonInit /\ AttachOff /\ RegOff /\ NameOff /\ InfoOff

Next ==
    \/ \E c \in Conns : Connect(c)
    \/ \E c \in Conns : ClientSend(c)
    \/ \E c \in Conns : ClientClose(c)
    \/ ChildWrite
    \/ ChildExit
    \/ ChildKilled
    \/ server_sigterm
    \/ server_sigchld
    \/ Cycle
    \/ LoopExit
    \/ PollError
    \/ ShutdownCheck
    \/ KillHup
    \/ Wait1
    \/ KillTerm
    \/ Wait2
    \/ KillKill
    \/ Wait3
    \/ BroadcastExit
    \/ Cleanup

Spec == Init /\ [][Next]_vars

\* The daemon with clients that connect and may stop reading, under the
\* scheduling of a running system: the daemon's loop and each step of its
\* shutdown are taken when they can be, a pending SIGCHLD is delivered, and
\* a child that has been sent a signal dies of it.
NextStall ==
    \/ \E c \in Conns : Connect(c)
    \/ \E c \in Conns : ClientStall(c)
    \/ ChildWrite
    \/ ChildExit
    \/ ChildKilled
    \/ server_sigterm
    \/ server_sigchld
    \/ Cycle
    \/ LoopExit
    \/ ShutdownCheck
    \/ KillHup
    \/ Wait1
    \/ KillTerm
    \/ Wait2
    \/ KillKill
    \/ Wait3
    \/ BroadcastExit
    \/ Cleanup

\* A step of run_server's own path: at each position one of them at most
\* can be taken.
ServerStep ==
    \/ Cycle
    \/ LoopExit
    \/ ShutdownCheck
    \/ KillHup
    \/ Wait1
    \/ KillTerm
    \/ Wait2
    \/ KillKill
    \/ Wait3
    \/ BroadcastExit
    \/ Cleanup

SpecStall ==
    /\ Init
    /\ [][NextStall]_vars
    /\ WF_vars(ServerStep)
    /\ WF_vars(ChildKilled)
    /\ WF_vars(server_sigchld)

\* The attach client against a daemon that writes to its socket and closes it.
InitAttach == DaemonInit /\ AttachInit /\ RegOff /\ NameOff /\ InfoOff
SpecAttach == InitAttach /\ [][NextAttach]_vars

\* The attach client as a running process: its loop and its return are
\* taken when they can be. Nothing is assumed of the user, of the daemon or
\* of signals.
SpecAttachFair ==
    /\ SpecAttach
    /\ WF_vars(AttachCycle)
    /\ WF_vars(AttachReturn)
    /\ WF_vars(atexit_restore)

\* The commands and the daemons they fork, on one session name.
InitReg == DaemonInit /\ AttachOff /\ RegInit /\ NameOff /\ InfoOff
SpecReg == InitReg /\ [][NextReg]_vars

\* One daemon's files and one enumeration.
InitInfo == DaemonInit /\ AttachOff /\ RegOff /\ NameOff /\ InfoInit
SpecInfo == InitInfo /\ [][NextInfo]_vars

\* One command and one name.
InitName == DaemonInit /\ AttachOff /\ RegOff /\ NameInit /\ InfoOff
SpecName == InitName /\ [][NextName]_vars

(* ------------------------------------------------------------------ *)
(* Properties                                                           *)
(* ------------------------------------------------------------------ *)

\* C1: when the send to an attached client a fails during the fan-out of a
\* PTY read, no other attached client is removed as a consequence, the
\* client-input pass of the same cycle included, and running is not
\* cleared. Stated for a cycle that admits nobody and a client b whose end
\* is open and which has sent nothing, so that nothing of its own can
\* remove it; and for a child that runs, so that no hangup clears running.
C1_FanOutFailureIsolated ==
    [][ \A a, b \in Attached :
          ( /\ pc = "loop"
            /\ nread' > nread
            /\ backlog = <<>>
            /\ cend[a] = "gone"
            /\ b # a
            /\ cend[b] = "open"
            /\ inbox[b] = 0 )
          => /\ cstate'[b] = "attached"
             /\ childState = "alive" => running' ]_vars

\* The concatenation of the payloads of the DATA frames of a stream.
RECURSIVE payload(_)
payload(s) ==
    IF s = <<>> THEN <<>>
    ELSE (IF Head(s).type = "DATA" THEN Head(s).data ELSE <<>>) \o payload(Tail(s))

\* C2: a client attached from before the child's first byte until the
\* session ended has received exactly the bytes the child wrote, in order.
C2_OutputDelivered ==
    pc = "done" =>
        \A c \in Conns :
            (cstate[c] = "shut" /\ c \in early) => payload(rx[c]) = Bytes(1, nprod)

\* C3: on every client stream at most one EXIT frame is written and nothing
\* follows it; a stream closed by the shutdown ends with the EXIT frame.
C3_ExitIsLast ==
    \A c \in Conns :
        /\ \A i \in 1 .. Len(rx[c]) : rx[c][i].type = "EXIT" => i = Len(rx[c])
        /\ cstate[c] = "shut" => rx[c] # <<>> /\ rx[c][Len(rx[c])].type = "EXIT"

\* A client that received output and then the EXIT frame was closed by the
\* shutdown.
C3_Witness ==
    \E c \in Conns :
        cstate[c] = "shut" /\ Len(rx[c]) >= 2 /\ rx[c][1].type = "DATA"

\* C6: the number of attached clients stays within 0 .. MAX_CLIENTS, and a
\* connection accepted while the table is full is closed without a read,
\* leaving the table, the info file and the window size as they were.
C6_Capacity ==
    /\ num_clients \in 0 .. MAX_CLIENTS
    /\ (num_clients >= MAX_CLIENTS /\ backlog # <<>>) =>
          \A f \in FirstFrames \cup {NoFrame} :
              LET w == accept(Work([NoFds EXCEPT !.lrev = TRUE]), f)
              IN  /\ w.tbl = client_fds
                  /\ w.n = num_clients
                  /\ w.info = info
                  /\ w.winsize = winsize
                  /\ w.hello = hello
                  /\ w.cs[Head(backlog)] = "refused"
                  /\ w.backlog = Tail(backlog)

\* A connection was refused at a full table.
C6_Witness ==
    /\ num_clients = MAX_CLIENTS
    /\ \E c \in Conns : cstate[c] = "refused"

\* C7: every connection in the client table was admitted on a first frame
\* of type HELLO with a 4-byte payload, received in full; a connection that
\* delivered no such frame is not in the table and has been sent nothing;
\* clients= counts only connections admitted so.
C7_HelloBeforeAdmission ==
    /\ \A c \in Conns :
          /\ c \in Attached =>
                hello[c].type = "HELLO" /\ hello[c].len = 4 /\ hello[c].full
          /\ hello[c] = NoFrame => c \notin Attached /\ rx[c] = <<>>
    /\ info.present =>
          info.clients <= Cardinality({c \in Conns : hello[c] = Frame("HELLO", 4, TRUE)})

\* One connection is attached and has been sent output while another was
\* turned away at the handshake.
C7_Witness ==
    \E c, d \in Conns :
        /\ c \in Attached
        /\ rx[c] # <<>>
        /\ cstate[d] = "rejected"
        /\ hello[d] = NoFrame

\* The table as a set, of a working state.
AttachedIn(w) == {w.tbl[k] : k \in 0 .. w.n - 1}

\* C14: a connection whose first frame is not a HELLO of 4 bytes received in
\* full (wrong type, wrong length, a length over 1 MiB, or no complete frame)
\* is closed, and the client table, the count, the info file, the window
\* size and the running flag are as before the accept.
C14_FailedHandshake ==
    (pc = "loop" /\ backlog # <<>> /\ num_clients < MAX_CLIENTS) =>
        \A f \in FirstFrames \cup {NoFrame} :
            (f.type # "HELLO" \/ f.len # 4 \/ ~f.full) =>
                LET w == accept(Work([NoFds EXCEPT !.lrev = TRUE]), f)
                    c == Head(backlog)
                IN  /\ w.cs[c] = "rejected"
                    /\ w.ce[c] = "gone"
                    /\ w.tbl = client_fds
                    /\ w.n = num_clients
                    /\ w.info = info
                    /\ w.winsize = winsize
                    /\ w.running = running
                    /\ w.hello = hello
                    /\ w.rx = [rx EXCEPT ![c] = <<>>]
                    /\ \A d \in Conns \ {c} : w.cs[d] = cstate[d]

\* A connection was turned away at the handshake while a client that had
\* set the window size by a WINCH stayed attached.
C14_Witness ==
    \E c, d \in Conns :
        /\ cstate[d] = "rejected"
        /\ c \in Attached
        /\ winsize = WinchSize
        /\ num_clients = 1
        /\ info.present /\ info.clients = 1
        /\ running

\* The frames that recv_msg is said to refuse.
BadFrame(f) == ~f.full \/ f.len > MaxPayload

\* C15: when the daemon reads from an attached client a header that declares
\* more than 1 MiB, or the stream holds no complete frame, exactly that
\* client is removed and the session keeps running; a frame of exactly
\* 1048576 bytes is received and removes nobody.
C15_BadFrameRemovesSender ==
    pc = "loop" =>
        \A k \in 0 .. num_clients - 1 :
            LET w == Work(NoFds)
                c == client_fds[k]
            IN  /\ \A f \in ClientFrames :
                      LET w1 == serve(w, k, {"IN"}, TRUE, f)
                      IN  /\ BadFrame(f) =>
                                /\ AttachedIn(w1) = Attached \ {c}
                                /\ w1.n = num_clients - 1
                                /\ w1.cs = [cstate EXCEPT ![c] = "closed"]
                                /\ w1.running = running
                          /\ (f.full /\ f.len = MaxPayload) =>
                                /\ w1.tbl = client_fds
                                /\ w1.n = num_clients
                                /\ w1.cs = cstate
                /\ LET w1 == serve(w, k, {"IN"}, FALSE, NoFrame)
                   IN  /\ AttachedIn(w1) = Attached \ {c}
                       /\ w1.n = num_clients - 1
                       /\ w1.cs = [cstate EXCEPT ![c] = "closed"]
                       /\ w1.running = running

\* Two clients are attached, one of them with a frame on its socket; were
\* the frame to declare more than 1 MiB, the other client alone would stay.
C15_Witness ==
    /\ pc = "loop" /\ running
    /\ num_clients = 2
    /\ inbox[client_fds[1]] > 0
    /\ LET w1 == serve(Work(NoFds), 1, {"IN"}, TRUE, Frame("DATA", MaxPayload + 1, TRUE))
       IN  /\ w1.n = 1
           /\ w1.tbl[0] = client_fds[0]
           /\ w1.cs[client_fds[1]] = "closed"

\* C16: dispatching a frame received from the client at index k changes the
\* table only for DETACH, which removes exactly that client; DATA writes to
\* the PTY iff its payload is not empty; WINCH sets the window size iff its
\* payload is 4 bytes; no frame clears running or signals a process.
C16_Dispatch ==
    pc = "loop" =>
        \A k \in 0 .. num_clients - 1 :
            \A f \in {g \in ClientFrames : ~BadFrame(g)} :
                LET w == Work(NoFds)
                    c == client_fds[k]
                    w1 == dispatch(w, k, f)
                IN  /\ w1.running = running
                    /\ w1.sig = {}
                    /\ IF f.type = "DETACH"
                       THEN /\ AttachedIn(w1) = Attached \ {c}
                            /\ w1.n = num_clients - 1
                            /\ w1.cs = [cstate EXCEPT ![c] = "closed"]
                       ELSE /\ w1.tbl = client_fds
                            /\ w1.n = num_clients
                            /\ w1.cs = cstate
                    /\ w1.pw = IF f.type = "DATA" /\ f.len > 0 THEN 1 ELSE 0
                    /\ w1.winsize = IF f.type = "WINCH" /\ f.len = 4
                                    THEN WinchSize ELSE winsize

\* Two clients are attached, the one at index 0 with a frame on its socket,
\* and the window size is the one a WINCH frame set.
C16_Witness ==
    /\ pc = "loop" /\ running
    /\ num_clients = 2
    /\ inbox[client_fds[0]] > 0
    /\ winsize = WinchSize
    /\ dispatch(Work(NoFds), 0, Frame("DETACH", 0, TRUE)).tbl[0] = client_fds[1]

\* C8: at rest between two steps of the daemon, clients= in the info file
\* is the number of descriptors in the client table.
C8_InfoClients ==
    info.present =>
        info.clients = num_clients /\ Cardinality(Attached) = num_clients

\* After an admission and a removal the info file counts the one client
\* that is left.
C8_Witness ==
    /\ info.present
    /\ info.clients = 1
    /\ \E c \in Conns : cstate[c] = "closed" /\ hello[c] # NoFrame

\* The exit code the convention assigns to a wait status.
ExitOf(w) == IF WIFEXITED(w) THEN WEXITSTATUS(w) ELSE 128 + WTERMSIG(w)

\* C9: the daemon's return code, and the byte of the EXIT frame, is the
\* child's exit status if it exited and 128 + the signal if it was killed,
\* whoever reaped the child.
C9_ExitCode ==
    pc = "done" =>
        /\ child_exit_code = ExitOf(childStatus)
        /\ \A c \in Conns :
              cstate[c] = "shut" =>
                  rx[c][Len(rx[c])] = ExitFrame(ExitOf(childStatus) % 256)

\* The frames a step appends to those sent, the window-size frames apart.
NotWinch(m) == m.type # "WINCH"

Appended == SelectSeq(SubSeq(tx', Len(tx) + 1, Len(tx')), NotWinch)

\* C17: for a chunk read from stdin while the socket takes writes: if a byte
\* of it is 0x1C the client sends one empty DETACH frame and no DATA frame,
\* leaves its loop, sends nothing afterwards and returns 0; otherwise it
\* sends the chunk whole as one DATA frame.
C17_StdinChunk ==
    [][/\ (apc = "loop" /\ attach_running /\ stdin = "data" /\ stdin' = "none"
            /\ sock_send) =>
             /\ SubSeq(tx', 1, Len(tx)) = tx
             /\ IF \E i \in 1 .. Len(buf) : buf[i] = DETACH_KEY
                THEN /\ Appended = <<Msg("DETACH", <<>>)>>
                     /\ tx'[Len(tx')] = Msg("DETACH", <<>>)
                     /\ ~attach_running'
                     /\ exit_code' = 0
                ELSE /\ Appended = <<Msg("DATA", buf)>>
                     /\ tx'[Len(tx')] = Msg("DATA", buf)
       /\ ~attach_running => (tx' = tx /\ exit_code' = exit_code)
       /\ apc # "loop" => (tx' = tx /\ exit_code' = exit_code)
      ]_vars

\* The client has sent a chunk as a DATA frame, then a DETACH frame for a
\* chunk that held the detach key after another byte, and has returned 0.
C17_Witness ==
    /\ apc = "exited"
    /\ exit_code = 0
    /\ Len(tx) = 3
    /\ tx[2] = Msg("DATA", <<97, 97>>)
    /\ tx[3] = Msg("DETACH", <<>>)
    /\ local_end

\* C20: once the attach client has ended after switching the terminal to raw
\* mode, by whatever path, the terminal has its saved settings again.
C20_TerminalRestored ==
    apc \in {"exited", "killed"} => term = "cooked"

\* C10: when the daemon wrote an EXIT frame with code c before it closed
\* the socket, the attach client returns c. Stated for a client whose loop
\* did not end for a reason of its own side (detach key, end of input, a
\* failed send, a failed poll).
C10_ExitCodeReturned ==
    (apc = "returned" /\ exit_sent # NoExit /\ ~local_end) => exit_code = exit_sent

\* The names the commands are said to accept: 1 to MAX_NAME_LEN bytes, each
\* a letter, a digit, '.', '_' or '-', and not "." or "..".
NameBytes == (65 .. 90) \cup (97 .. 122) \cup (48 .. 57) \cup {46, 95, 45}

Accepted(nm) ==
    /\ Len(nm) \in 1 .. MAX_NAME_LEN
    /\ \A i \in 1 .. Len(nm) : nm[i] \in NameBytes
    /\ nm \notin {<<46>>, <<46, 46>>}

RegFiles == <<sock_file, pid_file, info_file>>

NoRegFiles == <<0, 0, 0>>

\* C13: create finding the socket file and a PID file that names a live
\* process returns 1, forks nothing and leaves the three files as they
\* were; finding the PID missing or dead it unlinks the three files and goes
\* on to the fork.
C13_CreateOnExisting ==
    [][\A i \in Invs :
        /\ (ipc[i] = "c_alive" /\ ipc'[i] # "c_alive") =>
              IF pid[i] > 0 /\ process_exists(pid[i])
              THEN /\ ipc'[i] = "ret1"
                   /\ RegFiles' = RegFiles
                   /\ dstate' = dstate
              ELSE /\ ipc'[i] = "c_cleanup"
                   /\ dstate' = dstate
        /\ (ipc[i] = "c_cleanup" /\ ipc'[i] # "c_cleanup") =>
              /\ RegFiles' = NoRegFiles
              /\ ipc'[i] = "c_fork"
        /\ (dstate[i] = "none" /\ dstate'[i] # "none") => ipc[i] = "c_fork"
      ]_vars

\* C19: kill of a live session returns 0 with the process it read from the
\* PID file dead and the three files absent; kill finding no PID or a dead
\* one returns 1, having signalled nothing and leaving no file.
C19_Kill ==
    [][\A i \in Invs :
        /\ (kind[i] = "kill" /\ ipc[i] # "ret0" /\ ipc'[i] = "ret0") =>
              /\ ipc[i] \in {"k_wait", "k_clean"}
              /\ pid[i] \in Invs
              /\ dstate'[pid[i]] \notin Alive
              /\ RegFiles' = NoRegFiles
        /\ (ipc[i] = "k_alive" /\ ipc'[i] # "k_alive") =>
              IF pid[i] > 0 /\ process_alive(pid[i])
              THEN ipc'[i] = "k_term"
              ELSE ipc'[i] = "k_stale" /\ sigterm' = sigterm /\ dstate' = dstate
        /\ (ipc[i] = "k_stale" /\ ipc'[i] # "k_stale") =>
              /\ ipc'[i] = "ret1"
              /\ sigterm' = sigterm
              /\ dstate' = dstate
              /\ RegFiles' = NoRegFiles
      ]_vars

\* One kill has ended a daemon that was in its loop and returned 0; another
\* kill, finding no PID file, has returned 1; no file is left.
C19_Witness ==
    \E i, j \in Invs :
        /\ kind[i] = "kill" /\ ipc[i] = "ret0"
        /\ \E d \in Invs : dstate[d] \in {"exited", "killed"}
        /\ kind[j] = "kill" /\ ipc[j] = "ret1"
        /\ RegFiles = NoRegFiles

\* C18: the enumerator returns a session just created with the daemon's PID
\* and with the command it was created with, "bash" when none was given.
C18_EnumeratorRoundTrip ==
    epc = "listed" =>
        /\ si.pid = daemon_pid
        /\ si.command = IF cmd = <<>> THEN S_bash ELSE cmd

\* C21: in every pass of the loop, recv_msg is called on a client's socket
\* only if poll reported that socket readable in this pass.
C21_ReadOnlyWhenReadable ==
    (pc = "loop" /\ running) =>
        \A fds \in Polled,
           f \in (IF Handshake THEN FirstFrames \cup {NoFrame} ELSE {NoFrame}),
           g \in (IF Handshake THEN Garbage ELSE {{}}),
           sent \in [{c \in Attached : inbox[c] > 0} -> ClientFrames] :
            \A c \in pass(fds, f, g, sent).reads :
                \E j \in 0 .. fds.n - 1 : client_fds[j] = c /\ "IN" \in fds.rev[j]

\* C27: in every pass of the loop, each index the client-input loop examines
\* is below the number of client entries put in the pollfd vector.
C27_IndexWithinPolled ==
    (pc = "loop" /\ running) =>
        \A fds \in Polled,
           f \in (IF Handshake THEN FirstFrames \cup {NoFrame} ELSE {NoFrame}),
           g \in (IF Handshake THEN Garbage ELSE {{}}),
           sent \in [{c \in Attached : inbox[c] > 0} -> ClientFrames] :
            \A k \in pass(fds, f, g, sent).idxs : k < fds.n

\* C28: every kill and every waitpid of the daemon is given the pid of its
\* own child, never the value child_pid holds once the child is reaped.
C28_SignalsOwnChild == targets \subseteq {ChildPid}

\* C29: a create that forked a daemon has returned 0 only if that daemon
\* bound its listening socket.
C29_CreateZeroMeansBound ==
    \A i \in Invs :
        (kind[i] = "create" /\ ipc[i] = "ret0" /\ dstate[i] # "none") =>
            dstate[i] \notin {"start", "unlinked", "failed"}

\* C25: removing the client at an index and then asking for the same removal
\* again leaves the table and the count as they were after the first removal.
C25_RemovalIdempotent ==
    pc = "loop" =>
        \A k \in 0 .. num_clients - 1 :
            LET w1 == server_remove_client(Work(NoFds), k)
            IN  k < w1.n =>
                    /\ server_remove_client(w1, k).tbl = w1.tbl
                    /\ server_remove_client(w1, k).n = w1.n

\* C30: on its connection the attach client sends HELLO as the first frame
\* and never again, after it only DATA, WINCH and DETACH, and nothing after
\* a DETACH.
C30_ClientFrameOrder ==
    apc # "off" =>
        /\ Len(tx) >= 1
        /\ tx[1].type = "HELLO"
        /\ \A i \in 2 .. Len(tx) : tx[i].type \in {"DATA", "WINCH", "DETACH"}
        /\ \A i \in 1 .. Len(tx) - 1 : tx[i].type # "DETACH"

\* The client has sent HELLO, a WINCH, and a DETACH, and has exited.
C30_Witness ==
    /\ apc = "exited"
    /\ Len(tx) = 3
    /\ tx[2].type = "WINCH"
    /\ tx[3].type = "DETACH"

\* C26: in the attach client, once standard input has hung up or reads of
\* it fail, the loop eventually ends.
C26_StdinFailureEndsLoop ==
    (apc = "loop" /\ stdin \in {"hup", "err"}) ~> (apc # "loop")

\* Client c's stream ends with the EXIT frame.
EndsWithExit(r) == r # <<>> /\ r[Len(r)].type = "EXIT"

\* What has been done by the time each step of the shutdown is reached.
ShutdownState ==
    /\ Rank(pc) < 10 => files
    /\ Rank(pc) >= 8 => childState = "reaped"
    /\ Rank(pc) < 8 => \A c \in Conns : ~EndsWithExit(rx[c]) /\ cstate[c] # "shut"
    /\ pc = "sd_close" =>
          \A c \in Attached : cstate[c] = "attached" /\ EndsWithExit(rx[c])
    /\ pc = "done" =>
          /\ ~files
          /\ ~info.present
          /\ \A c \in Conns : cstate[c] # "attached"
          /\ \A c \in Attached : cstate[c] = "shut" /\ EndsWithExit(rx[c])

\* The steps of the shutdown are taken forwards and each at most once.
ShutdownStep ==
    /\ Rank(pc') >= Rank(pc)
    /\ (Rank(pc) >= 8 /\ pc' # pc) => Rank(pc') = Rank(pc) + 1
    /\ (pc = "loop" /\ pc' # pc) => pc' = "sd_check"
    /\ (pc = "sd_check" /\ pc' # pc) =>
          pc' = IF childState \in {"alive", "zombie"} /\ child_pid > 0
                THEN "sd_hup" ELSE "sd_exit"
    /\ (Rank(pc) \in 2 .. 7 /\ pc' # pc) => pc' \in {"sd_exit"} \cup
          (IF Rank(pc') = Rank(pc) + 1 THEN {pc'} ELSE {})
    /\ pc = "done" => UNCHANGED dvars

\* C22: once the loop is left the shutdown runs once and in order: the
\* child is signalled and reaped if it was not, then EXIT is broadcast to
\* the clients still attached, then the sockets are closed and the session's
\* files removed; when run_server has returned none of the files exists.
C22_ShutdownOrder == []ShutdownState /\ [][ShutdownStep]_vars

\* run_server has returned after the escalation reached SIGKILL, with a
\* client that was attached to the end.
C22_Witness ==
    /\ pc = "done"
    /\ childStatus = Signaled(SIGKILL)
    /\ wstatus = Signaled(SIGKILL)
    /\ \E c \in Conns : cstate[c] = "shut"

\* C23: an attached client that has stopped reading, while output of the
\* child waits to be fanned out, is eventually dropped from the table.
C23_StalledClientDropped ==
    \A c \in Conns :
        (pc = "loop" /\ running /\ cstate[c] = "attached" /\ cend[c] = "stalled"
            /\ nread < nprod)
        ~> (cstate[c] # "attached")

\* C24: once running is cleared (the child was reaped, SIGTERM came, or the
\* PTY hung up or failed), run_server eventually completes its shutdown,
\* whatever the clients do.
C24_ShutdownCompletes == (~running) ~> (pc = "done")

\* C11: under a registry root that is a symbolic link or is not the
\* caller's, no command stats, reads, connects to or unlinks anything.
C11_BadRootUntouched ==
    dir # "ok" => ops = {}

\* C4: at most one daemon serves the session name.
C4_OneDaemon ==
    Cardinality({i \in Invs : dstate[i] = "loop"}) <= 1

\* C5: while a daemon is in its event loop its socket, PID file and info
\* file exist. Stated for a name on which only that one daemon was ever
\* started, so that no second daemon is what removed them.
C5_FilesOfLiveDaemon ==
    \A i \in Invs :
        (dstate[i] = "loop" /\ \A j \in Invs \ {i} : dstate[j] = "none")
        => sock_file = i /\ pid_file = i /\ info_file = i

====
